---- MODULE Spec2Model ----
(***************************************************************************)
(* GSTIN status tracking (india_compliance/gst_india/doctype/gstin).       *)
(*                                                                         *)
(* State: the GSTIN document store, the TTL cache (per-GSTIN "recently     *)
(* checked" flag and the "gst_server_error" circuit breaker), the clock,   *)
(* the GST Settings, and the executions of create_or_update_gstin_status   *)
(* that run as background jobs; a whitelisted call runs to its end.       *)
(*                                                                         *)
(* Python values: None is "None" for strings and NoDate for dates; the     *)
(* stored is_blocked 0/1 is written "0"/"1" so that it can be compared     *)
(* with the raw codes "U"/"B".                                             *)
(***************************************************************************)
EXTENDS Integers, Sequences, FiniteSets, TLC

\* ---------------------------------------------------------------- bounds
MaxTicks == 1        \* clock advances explored
MaxCalls == 2        \* whitelisted calls explored
MaxTasks == 2        \* background jobs queued or running at a time

\* ------------------------------------------------------------- constants
ServerErrorTTL == 60          \* expires_in_sec of "gst_server_error"
RecentlyCheckedTTL == 180     \* expires_in_sec of the per-GSTIN flag
SecondsPerDay == 86400        \* date_diff counts calendar days

\* The names explored: a party GSTIN and a transporter ID of the "88" series.
Gstins == {"27GSTIN"}
TransporterIds == {"88TRANS"}
Keys == Gstins \cup TransporterIds
\* An ID that is neither: no "88" prefix and a wrong check digit.
OtherIds == {"29BADID"}
AllKeys == Keys \cup OtherIds
NoDate == 0
TxnDates == {NoDate, 2}
TickSteps == {ServerErrorTTL, SecondsPerDay}

GSTIN_STATUS(code) ==
    CASE code = "ACT" -> "Active"
      [] code = "CNL" -> "Cancelled"
      [] code = "INA" -> "Inactive"
      [] code = "PRO" -> "Provisional"
      [] code = "SUS" -> "Suspended"
      [] OTHER -> code

GSTIN_BLOCK_STATUS(code) ==
    CASE code = "U" -> "0"
      [] code = "B" -> "1"
      [] OTHER -> "0"

\* ----------------------------------------------------- external payloads
\* What the public registry answers (sts, rgdt, cxdt) for a GSTIN.
PublicPayloads ==
    { [sts |-> "Active",    rgdt |-> 2, cxdt |-> NoDate],
      [sts |-> "Cancelled", rgdt |-> 2, cxdt |-> NoDate],
      [sts |-> "Suspended", rgdt |-> 2, cxdt |-> NoDate] }

\* What the e-invoice API answers (Status, DtReg, DtDReg, BlkStatus).
EInvoicePayloads ==
    { [Status |-> "ACT", DtReg |-> 3, DtDReg |-> NoDate, BlkStatus |-> "B"],
      [Status |-> "CNL", DtReg |-> 1, DtDReg |-> 3, BlkStatus |-> "U"],
      [Status |-> "CNL", DtReg |-> NoDate, DtDReg |-> NoDate, BlkStatus |-> "U"] }

\* What the e-waybill API answers for a transporter ID: a record with or
\* without transin, or an empty response.
TransporterPayloads == { [transin |-> "T"], [transin |-> "None"] }

ApiFailures == {"Exception", "GSPServerError"}

\* ------------------------------------------------------------ documents
NoDoc == [gstin |-> "None"]
NoResponse == [none |-> TRUE]

\* frappe.new_doc("GSTIN")
NewDoc ==
    [gstin |-> "None", status |-> "None", is_blocked |-> "None",
     registration_date |-> NoDate, cancelled_date |-> NoDate,
     last_updated_on |-> 0, transporter_id_status |-> "None"]

\* parse_datetime(value, throw=False): None for what is no date
ParseDatetime(value) == IF value \in 1..3 THEN value ELSE NoDate

\* doc.update(response): the keys of the response overwrite the document's
DocUpdate(doc, response) ==
    [f \in DOMAIN doc |-> IF f \in DOMAIN response THEN response[f] ELSE doc[f]]

\* ------------------------------------------------------------- settings
ServiceRow == [service |-> "e-Waybill / e-Invoice", gstin |-> "C1"]
ReturnsRow == [service |-> "Returns", gstin |-> "C1"]

BaseSettings ==
    [validate_gstin_status |-> TRUE, enable_api |-> TRUE, sandbox_mode |-> FALSE,
     gstin_status_refresh_interval |-> 1, enable_e_invoice |-> TRUE,
     credentials |-> <<ReturnsRow, ServiceRow>>, enable_e_waybill |-> TRUE]

\* The GST Settings explored: the usual configuration and each switch flipped.
SettingsOptions ==
    { BaseSettings,
      [BaseSettings EXCEPT !.validate_gstin_status = FALSE],
      [BaseSettings EXCEPT !.enable_api = FALSE],
      [BaseSettings EXCEPT !.sandbox_mode = TRUE],
      [BaseSettings EXCEPT !.enable_e_invoice = FALSE],
      [BaseSettings EXCEPT !.credentials = <<ReturnsRow>>],
      [BaseSettings EXCEPT !.enable_e_waybill = FALSE],
      [BaseSettings EXCEPT !.gstin_status_refresh_interval = 2] }

\* ----------------------------------------------------------------- state
VARIABLES
    settings,   \* the cached GST Settings document
    store,      \* GSTIN documents by name: store[g] is a document or NoDoc
    cache,      \* frappe.cache: expiry time of each key, 0 when absent
    now,        \* the clock, in seconds
    tasks,      \* executions of create_or_update_gstin_status in flight
    ncalls,     \* whitelisted calls made so far
    nticks,     \* clock advances so far
    last        \* what the last step did (read by the properties)

vars == <<settings, store, cache, now, tasks, ncalls, nticks, last>>

CacheKeys == AllKeys \cup {"gst_server_error"}
TaskIds == 1..MaxTasks

\* frappe.cache.get_value(key) on cache contents c: a key lives until its expiry
CacheLive(c, key) == c[key] > now

CacheGet(key) == CacheLive(cache, key)

\* frappe.cache.set_value(key, True, expires_in_sec=ttl)
CacheSet(c, key, ttl) == [c EXCEPT ![key] = now + ttl]

\* get_datetime().date() as a day number
Today == now \div SecondsPerDay

\* getdate(value): today for None
GetDate(value) == IF value = NoDate THEN Today ELSE value

\* date_diff(a, b) on dates
DateDiff(a, b) == GetDate(a) - GetDate(b)

\* date_diff(get_datetime(), last_updated_on)
DaysSince(last_updated_on) == Today - (last_updated_on \div SecondsPerDay)

\* is_api_enabled(settings)
IsApiEnabled(s) == s.enable_api

RECURSIVE FirstServiceGstin(_)
FirstServiceGstin(rows) ==
    IF rows = <<>> THEN "None"
    ELSE IF Head(rows).service = "e-Waybill / e-Invoice" THEN Head(rows).gstin
    ELSE FirstServiceGstin(Tail(rows))

get_company_gstin ==
    IF ~settings.enable_e_invoice THEN "None"
    ELSE FirstServiceGstin(settings.credentials)

\* GSTIN.before_save
before_save(doc) ==
    LET status == GSTIN_STATUS(doc.status) IN
    [doc EXCEPT
        !.status = status,
        !.is_blocked = GSTIN_BLOCK_STATUS(doc.is_blocked),
        !.last_updated_on = now,
        !.cancelled_date =
            IF doc.cancelled_date = NoDate /\ status = "Cancelled"
            THEN doc.registration_date
            ELSE doc.cancelled_date]

get_formatted_response(gstin, response) ==
    [gstin |-> gstin,
     registration_date |-> ParseDatetime(response.rgdt),
     cancelled_date |-> ParseDatetime(response.cxdt),
     status |-> response.sts]

\* the frappe._dict built from the e-invoice response
EInvoiceResponse(gstin, response) ==
    [gstin |-> gstin,
     registration_date |-> ParseDatetime(response.DtReg),
     cancelled_date |-> ParseDatetime(response.DtDReg),
     status |-> response.Status,
     is_blocked |-> response.BlkStatus]

\* validate_gstin(gstin) passes
ValidGstin(gstin) == gstin \in Gstins

\* transporter_id[:2] == "88"
StartsWith88(transporter_id) == transporter_id \in TransporterIds

\* validate_gstin_check_digit(transporter_id, throw=False)
validate_gstin_check_digit(transporter_id) == transporter_id \in Keys

\* The first-step test of validate_gst_transporter_id with the check digit
\* left out
Mut_UsesTransporterApi_prefix_only(transporter_id) == StartsWith88(transporter_id)

\* validate_gst_transporter_id: the ID goes to the Transporter ID API
UsesTransporterApi(transporter_id) ==
    StartsWith88(transporter_id) \/ ~validate_gstin_check_digit(transporter_id)

\* The fallback test of validate_gst_transporter_id with the transporter
\* status left out
Mut_NeedsTransporterFallback_status_only(gstin) ==
    gstin # NoDoc /\ gstin.status # "Active"

\* validate_gst_transporter_id: the document found so far sends the ID to the
\* Transporter ID API (after "if not gstin: return")
NeedsTransporterFallback(gstin) ==
    /\ gstin # NoDoc
    /\ gstin.status # "Active"
    /\ gstin.transporter_id_status = "None"

\* _get_gstin_info preferring the e-invoice API whenever a company GSTIN is
\* configured, whatever use_public_api says
Mut_GstinApi_company_first(c, gstin, use_public_api) ==
    IF ~ValidGstin(gstin) THEN "none"
    ELSE IF CacheLive(c, "gst_server_error") THEN "none"
    ELSE IF get_company_gstin = "None" THEN "public"
    ELSE "einvoice"

\* The source _get_gstin_info contacts with cache contents c: none when
\* validate_gstin throws or while the circuit breaker is set.
GstinApi(c, gstin, use_public_api) ==
    IF ~ValidGstin(gstin) THEN "none"
    ELSE IF CacheLive(c, "gst_server_error") THEN "none"
    ELSE IF use_public_api \/ get_company_gstin = "None" THEN "public"
    ELSE "einvoice"

\* The source get_transporter_id_info contacts.
TransporterApi ==
    IF ~settings.enable_e_waybill THEN "none"
    ELSE IF get_company_gstin = "None" THEN "none"
    ELSE "ewaybill"

NoOutcome == [kind |-> "none"]

\* What a call of the given API can come back with.
ApiOutcomes(api) ==
    LET failures == { [kind |-> f] : f \in ApiFailures } IN
    CASE api = "public" ->
            { [kind |-> "ok", payload |-> p] : p \in PublicPayloads } \cup failures
      [] api = "einvoice" ->
            { [kind |-> "ok", payload |-> p] : p \in EInvoicePayloads } \cup failures
      [] api = "ewaybill" ->
            { [kind |-> "ok", payload |-> p] : p \in TransporterPayloads }
                \cup { [kind |-> "empty"] } \cup failures
      [] OTHER -> { NoOutcome }

\* _get_gstin_info setting the per-GSTIN flag in the except clause instead of
\* the finally clause
Mut_get_gstin_info_flag_on_error(c, gstin, use_public_api, out) ==
    LET api == GstinApi(c, gstin, use_public_api)
        flagged == IF out.kind = "GSPServerError"
                   THEN CacheSet(c, "gst_server_error", ServerErrorTTL)
                   ELSE c
    IN  IF ~ValidGstin(gstin)
        THEN [api |-> api, response |-> NoResponse, raised |-> "ValidationError",
              cache |-> c]
        ELSE [api |-> api,
              response |->
                 IF out.kind # "ok" THEN NoResponse
                 ELSE IF api = "public"
                      THEN get_formatted_response(gstin, out.payload)
                      ELSE EInvoiceResponse(gstin, out.payload),
              raised |-> "none",
              cache |-> IF out.kind \in ApiFailures
                        THEN CacheSet(flagged, gstin, RecentlyCheckedTTL)
                        ELSE flagged]

\* _get_gstin_info(gstin=gstin, use_public_api=use_public_api) on cache
\* contents c, with the API call coming back with out: the response, the
\* exception that leaves the function, and the cache afterwards.
_get_gstin_info(c, gstin, use_public_api, out) ==
    LET api == GstinApi(c, gstin, use_public_api)
        flagged == IF out.kind = "GSPServerError"
                   THEN CacheSet(c, "gst_server_error", ServerErrorTTL)
                   ELSE c
    IN  IF ~ValidGstin(gstin)
        THEN [api |-> api, response |-> NoResponse, raised |-> "ValidationError",
              cache |-> c]
        ELSE [api |-> api,
              response |->
                 IF out.kind # "ok" THEN NoResponse
                 ELSE IF api = "public"
                      THEN get_formatted_response(gstin, out.payload)
                      ELSE EInvoiceResponse(gstin, out.payload),
              raised |-> "none",
              cache |-> CacheSet(flagged, gstin, RecentlyCheckedTTL)]

\* get_transporter_id_info(transporter_id), likewise
get_transporter_id_info(c, transporter_id, out) ==
    [api |-> TransporterApi,
     response |->
        IF out.kind # "ok" THEN NoResponse
        ELSE [gstin |-> transporter_id,
              transporter_id_status |->
                 IF out.payload.transin # "None" THEN "Active" ELSE "Invalid"],
     raised |-> IF out.kind \in ApiFailures THEN out.kind ELSE "none",
     cache |-> c]

\* _validate_gstin_info with the cancellation test "> 0" for ">= 0"
Mut_validate_gstin_info_after(gstin_doc, transaction_date) ==
    IF gstin_doc = NoDoc \/ transaction_date = NoDate THEN "none"
    ELSE IF gstin_doc.registration_date = NoDate THEN "registration date not found"
    ELSE IF DateDiff(transaction_date, gstin_doc.registration_date) < 0
         THEN "before registration"
    ELSE IF /\ gstin_doc.status = "Cancelled"
            /\ DateDiff(transaction_date, gstin_doc.cancelled_date) > 0
         THEN "cancelled"
    ELSE IF gstin_doc.status \notin {"Active", "Cancelled"} THEN "status"
    ELSE "pass"

\* _validate_gstin_info without the last test, of the status
Mut_validate_gstin_info_no_status(gstin_doc, transaction_date) ==
    IF gstin_doc = NoDoc \/ transaction_date = NoDate THEN "none"
    ELSE IF gstin_doc.registration_date = NoDate THEN "registration date not found"
    ELSE IF DateDiff(transaction_date, gstin_doc.registration_date) < 0
         THEN "before registration"
    ELSE IF /\ gstin_doc.status = "Cancelled"
            /\ DateDiff(transaction_date, gstin_doc.cancelled_date) >= 0
         THEN "cancelled"
    ELSE "pass"

\* _validate_gstin_info(gstin_doc, transaction_date): "none" when it returns
\* before checking, "pass" when it reaches the end, else the failure it reports.
_validate_gstin_info(gstin_doc, transaction_date) ==
    IF gstin_doc = NoDoc \/ transaction_date = NoDate THEN "none"
    ELSE IF gstin_doc.registration_date = NoDate THEN "registration date not found"
    ELSE IF DateDiff(transaction_date, gstin_doc.registration_date) < 0
         THEN "before registration"
    ELSE IF /\ gstin_doc.status = "Cancelled"
            /\ DateDiff(transaction_date, gstin_doc.cancelled_date) >= 0
         THEN "cancelled"
    ELSE IF gstin_doc.status \notin {"Active", "Cancelled"} THEN "status"
    ELSE "pass"

\* _throw(message) inside the validators
Report(result, throw) ==
    IF result \in {"none", "pass"} THEN result
    ELSE IF throw THEN "thrown" ELSE "logged"

\* _validate_gst_transporter_id_info(transporter_id_info)
_validate_gst_transporter_id_info(transporter_id_info) ==
    IF transporter_id_info = NoDoc THEN "none"
    ELSE IF transporter_id_info.transporter_id_status # "Active" THEN "not active"
    ELSE "pass"

\* is_status_refresh_required that does not read the per-GSTIN flag
Mut_refresh_ignores_flag(gstin, transaction_date) ==
    IF \/ ~settings.validate_gstin_status
       \/ ~IsApiEnabled(settings)
       \/ settings.sandbox_mode
    THEN "None"
    ELSE IF store[gstin] = NoDoc THEN "True"
    ELSE IF transaction_date = NoDate THEN "False"
    ELSE IF store[gstin].status \notin {"Active", "Cancelled"} THEN "True"
    ELSE IF DaysSince(store[gstin].last_updated_on)
                >= settings.gstin_status_refresh_interval
         THEN "True" ELSE "False"

\* is_status_refresh_required that does not read sandbox_mode
Mut_refresh_ignores_sandbox(gstin, transaction_date) ==
    IF \/ ~settings.validate_gstin_status
       \/ ~IsApiEnabled(settings)
       \/ CacheGet(gstin)
    THEN "None"
    ELSE IF store[gstin] = NoDoc THEN "True"
    ELSE IF transaction_date = NoDate THEN "False"
    ELSE IF store[gstin].status \notin {"Active", "Cancelled"} THEN "True"
    ELSE IF DaysSince(store[gstin].last_updated_on)
                >= settings.gstin_status_refresh_interval
         THEN "True" ELSE "False"

\* is_status_refresh_required that tests the transaction date before the document
Mut_refresh_date_first(gstin, transaction_date) ==
    IF \/ ~settings.validate_gstin_status
       \/ ~IsApiEnabled(settings)
       \/ settings.sandbox_mode
       \/ CacheGet(gstin)
    THEN "None"
    ELSE IF transaction_date = NoDate THEN "False"
    ELSE IF store[gstin] = NoDoc THEN "True"
    ELSE IF store[gstin].status \notin {"Active", "Cancelled"} THEN "True"
    ELSE IF DaysSince(store[gstin].last_updated_on)
                >= settings.gstin_status_refresh_interval
         THEN "True" ELSE "False"

\* is_status_refresh_required with "> interval" for ">= interval"
Mut_refresh_after_interval(gstin, transaction_date) ==
    IF \/ ~settings.validate_gstin_status
       \/ ~IsApiEnabled(settings)
       \/ settings.sandbox_mode
       \/ CacheGet(gstin)
    THEN "None"
    ELSE IF store[gstin] = NoDoc THEN "True"
    ELSE IF transaction_date = NoDate THEN "False"
    ELSE IF store[gstin].status \notin {"Active", "Cancelled"} THEN "True"
    ELSE IF DaysSince(store[gstin].last_updated_on)
                > settings.gstin_status_refresh_interval
         THEN "True" ELSE "False"

\* is_status_refresh_required(gstin, transaction_date): "None", "True" or "False"
is_status_refresh_required(gstin, transaction_date) ==
    IF \/ ~settings.validate_gstin_status
       \/ ~IsApiEnabled(settings)
       \/ settings.sandbox_mode
       \/ CacheGet(gstin)
    THEN "None"
    ELSE IF store[gstin] = NoDoc THEN "True"
    ELSE IF transaction_date = NoDate THEN "False"
    ELSE IF store[gstin].status \notin {"Active", "Cancelled"} THEN "True"
    ELSE IF DaysSince(store[gstin].last_updated_on)
                >= settings.gstin_status_refresh_interval
         THEN "True" ELSE "False"

\* ------------------------------------------------------------------ jobs
\* A background job running create_or_update_gstin_status(gstin=...,
\* transaction_date=..., callback=_validate_gstin_info): queued (not yet
\* started), load (the response is there, the document is not yet read),
\* save (the document is read or new, not yet saved).
FreeTask ==
    [pc |-> "free", gstin |-> "None", transaction_date |-> NoDate,
     response |-> NoResponse, doc |-> NoDoc, stale |-> FALSE]

IsFree(t) == tasks[t].pc = "free"

\* The slot a new job takes.
FreeSlot(t) == IsFree(t) /\ \A u \in TaskIds : u < t => ~IsFree(u)

\* What a step did; every step writes it anew. flagged, breaker and existed
\* are read before the step: the per-GSTIN flag, the circuit breaker and
\* whether the document was stored. In validate_gst_transporter_id, route is
\* the lookup of the first step ("transporter", "gstin" or "none"), found the
\* document the first step ends with, fallback whether the second lookup ran.
Event ==
    [op |-> "init", gstin |-> "None", transaction_date |-> NoDate,
     force_update |-> FALSE, is_request_from_ui |-> FALSE,
     flagged |-> FALSE, breaker |-> FALSE, existed |-> FALSE,
     api |-> "none", outcome |-> "none",
     route |-> "none", found |-> NoDoc, fallback |-> FALSE,
     fallback_api |-> "none", fallback_outcome |-> "none",
     enqueued |-> FALSE, returned |-> NoDoc, raised |-> "none",
     callback |-> "None", validation |-> "none", warned |-> FALSE]

\* The event of a request or job about gstin, before it acts.
EventOf(op, gstin) ==
    [Event EXCEPT !.op = op, !.gstin = gstin,
                  !.flagged = CacheGet(gstin),
                  !.breaker = CacheGet("gst_server_error"),
                  !.existed = store[gstin] # NoDoc]

\* response.pop("gstin")
Pop(response, key) == [f \in DOMAIN response \ {key} |-> response[f]]

\* callback(doc, transaction_date, throw=True)
Mut_Callback_throws(callback, doc, transaction_date) ==
    CASE callback = "_validate_gstin_info" ->
            Report(_validate_gstin_info(doc, transaction_date), TRUE)
      [] callback = "_validate_gst_transporter_id_info" ->
            Report(_validate_gst_transporter_id_info(doc), TRUE)
      [] OTHER -> "none"

\* callback(doc, transaction_date): the callbacks are called without throw
Callback(callback, doc, transaction_date) ==
    CASE callback = "_validate_gstin_info" ->
            Report(_validate_gstin_info(doc, transaction_date), FALSE)
      [] callback = "_validate_gst_transporter_id_info" ->
            Report(_validate_gst_transporter_id_info(doc), FALSE)
      [] OTHER -> "none"

\* frappe.db.exists / frappe.get_doc / frappe.new_doc on store contents st
LoadedDoc(st, gstin) == IF st[gstin] # NoDoc THEN st[gstin] ELSE NewDoc

\* response.pop("gstin") for a stored document, then doc.update(response)
UpdatedDoc(doc, response) ==
    DocUpdate(doc, IF doc.gstin # "None" THEN Pop(response, "gstin") ELSE response)

\* doc.save() of a document read earlier: refused when the stored document
\* was modified since it was read
SaveError(doc, stale) ==
    IF stale THEN "TimestampMismatchError" ELSE "none"

\* doc.save() of a new document: the insert fails when the name exists by now
InsertError(gstin) ==
    IF store[gstin] # NoDoc THEN "DuplicateEntryError" ELSE "none"

\* A save of gstin's document makes the copies that running jobs read stale.
MarkStale(ts, gstin) ==
    [u \in TaskIds |->
        IF ts[u].pc = "save" /\ ts[u].gstin = gstin /\ ts[u].doc.gstin # "None"
        THEN [ts[u] EXCEPT !.stale = TRUE]
        ELSE ts[u]]

Lookup(c, gstin, use_public_api, is_transporter_id, out) ==
    IF is_transporter_id
    THEN get_transporter_id_info(c, gstin, out)
    ELSE _get_gstin_info(c, gstin, use_public_api, out)

LookupApi(c, gstin, use_public_api, is_transporter_id) ==
    IF is_transporter_id THEN TransporterApi ELSE GstinApi(c, gstin, use_public_api)

\* create_or_update_gstin_status without "if not response: return"
Mut_create_or_update_without_response(st, c, gstin, transaction_date, callback, use_public_api, is_transporter_id, out) ==
    LET r == Lookup(c, gstin, use_public_api, is_transporter_id, out)
        saves == r.raised = "none"
        doc == before_save(UpdatedDoc(LoadedDoc(st, gstin), r.response))
    IN  [api |-> r.api, outcome |-> out.kind, raised |-> r.raised,
         cache |-> r.cache,
         store |-> IF saves THEN [st EXCEPT ![gstin] = doc] ELSE st,
         saved |-> saves,
         returned |-> IF saves THEN doc ELSE NoDoc,
         validation |-> IF saves THEN Callback(callback, doc, transaction_date)
                        ELSE "none"]

\* create_or_update_gstin_status(gstin, transaction_date=..., callback=...,
\* use_public_api=..., is_transporter_id=...) run to its end inside a request,
\* on store contents st and cache contents c, with the API call coming back
\* with out: what it returns or throws, and the cache and the store afterwards.
create_or_update_gstin_status(st, c, gstin, transaction_date, callback, use_public_api, is_transporter_id, out) ==
    LET r == Lookup(c, gstin, use_public_api, is_transporter_id, out)
        saves == r.raised = "none" /\ r.response # NoResponse
        doc == before_save(UpdatedDoc(LoadedDoc(st, gstin), r.response))
    IN  [api |-> r.api, outcome |-> out.kind, raised |-> r.raised,
         cache |-> r.cache,
         store |-> IF saves THEN [st EXCEPT ![gstin] = doc] ELSE st,
         saved |-> saves,
         returned |-> IF saves THEN doc ELSE NoDoc,
         validation |-> IF saves THEN Callback(callback, doc, transaction_date)
                        ELSE "none"]

\* --------------------------------------------------------------- actions
Init ==
    /\ settings = BaseSettings
    /\ store = [g \in AllKeys |-> NoDoc]
    /\ cache = [k \in CacheKeys |-> 0]
    /\ now = SecondsPerDay
    /\ tasks = [t \in TaskIds |-> FreeTask]
    /\ ncalls = 0
    /\ nticks = 0
    /\ last = Event

\* Time passes; expired cache keys go.
Tick(d) ==
    /\ nticks < MaxTicks
    /\ nticks' = nticks + 1
    /\ now' = now + d
    /\ cache' = [k \in CacheKeys |-> IF cache[k] <= now + d THEN 0 ELSE cache[k]]
    /\ last' = [Event EXCEPT !.op = "tick"]
    /\ UNCHANGED <<settings, store, tasks, ncalls>>

\* A request that runs create_or_update_gstin_status and returns what it returns.
Request(ev, gstin, use_public_api, is_transporter_id) ==
    \E out \in ApiOutcomes(LookupApi(cache, gstin, use_public_api, is_transporter_id)) :
        \E r \in { create_or_update_gstin_status(store, cache, gstin, NoDate, "None",
                                                  use_public_api, is_transporter_id, out) } :
            /\ cache' = r.cache
            /\ store' = r.store
            /\ tasks' = IF r.saved THEN MarkStale(tasks, gstin) ELSE tasks
            /\ last' = [ev EXCEPT !.api = r.api, !.outcome = r.outcome,
                                  !.raised = r.raised, !.returned = r.returned,
                                  !.validation = r.validation]

\* get_gstin_status that hands the stored document back while the refresh
\* job is queued
Mut_get_gstin_status_returns_stored(gstin, transaction_date, is_request_from_ui, force_update) ==
    LET ev == [EventOf("get_gstin_status", gstin) EXCEPT
                    !.transaction_date = transaction_date,
                    !.force_update = force_update,
                    !.is_request_from_ui = is_request_from_ui]
    IN
    /\ ncalls < MaxCalls
    /\ ncalls' = ncalls + 1
    /\ IF ~force_update /\ is_status_refresh_required(gstin, transaction_date) # "True"
       THEN /\ last' = [ev EXCEPT !.returned = store[gstin]]
            /\ UNCHANGED <<store, cache, tasks>>
       ELSE IF is_request_from_ui
       THEN Request(ev, gstin, force_update, FALSE)
       ELSE /\ \E t \in TaskIds :
                /\ FreeSlot(t)
                /\ tasks' = [tasks EXCEPT ![t] =
                        [FreeTask EXCEPT !.pc = "queued", !.gstin = gstin,
                                         !.transaction_date = transaction_date]]
            /\ last' = [ev EXCEPT !.enqueued = TRUE, !.returned = store[gstin]]
            /\ UNCHANGED <<store, cache>>
    /\ UNCHANGED <<settings, now, nticks>>

\* get_gstin_status(gstin, transaction_date, is_request_from_ui, force_update)
get_gstin_status(gstin, transaction_date, is_request_from_ui, force_update) ==
    LET ev == [EventOf("get_gstin_status", gstin) EXCEPT
                    !.transaction_date = transaction_date,
                    !.force_update = force_update,
                    !.is_request_from_ui = is_request_from_ui]
    IN
    /\ ncalls < MaxCalls
    /\ ncalls' = ncalls + 1
    /\ IF ~force_update /\ is_status_refresh_required(gstin, transaction_date) # "True"
       THEN /\ last' = [ev EXCEPT !.returned = store[gstin]]
            /\ UNCHANGED <<store, cache, tasks>>
       ELSE IF is_request_from_ui
       THEN \* get_updated_gstin: the request itself looks up
            Request(ev, gstin, force_update, FALSE)
       ELSE \* get_updated_gstin: frappe.enqueue
            /\ \E t \in TaskIds :
                /\ FreeSlot(t)
                /\ tasks' = [tasks EXCEPT ![t] =
                        [FreeTask EXCEPT !.pc = "queued", !.gstin = gstin,
                                         !.transaction_date = transaction_date]]
            /\ last' = [ev EXCEPT !.enqueued = TRUE]
            /\ UNCHANGED <<store, cache>>
    /\ UNCHANGED <<settings, now, nticks>>

\* GSTIN.update_gstin_status of a stored document
update_gstin_status(gstin) ==
    /\ ncalls < MaxCalls
    /\ store[gstin] # NoDoc
    /\ ncalls' = ncalls + 1
    /\ Request(EventOf("update_gstin_status", gstin), gstin, TRUE, FALSE)
    /\ UNCHANGED <<settings, now, nticks>>

\* GSTIN.update_transporter_id_status of a stored document
update_transporter_id_status(gstin) ==
    /\ ncalls < MaxCalls
    /\ store[gstin] # NoDoc
    /\ ncalls' = ncalls + 1
    /\ Request(EventOf("update_transporter_id_status", gstin), gstin, FALSE, TRUE)
    /\ UNCHANGED <<settings, now, nticks>>

\* validate_gst_transporter_id(transporter_id): the stored document or a
\* first lookup, then the fallback lookup, then the warning. An exception
\* ends the request, which rolls back what it saved.
validate_gst_transporter_id(transporter_id) ==
    LET exists == store[transporter_id] # NoDoc
        by_transporter_api == UsesTransporterApi(transporter_id)
        api1 == IF exists THEN "none"
                ELSE LookupApi(cache, transporter_id, FALSE, by_transporter_api)
    IN
    /\ ncalls < MaxCalls
    /\ ncalls' = ncalls + 1
    /\ \E out1 \in ApiOutcomes(api1) :
        \E r1 \in { create_or_update_gstin_status(
                      store, cache, transporter_id, NoDate,
                      IF by_transporter_api THEN "_validate_gst_transporter_id_info"
                      ELSE "_validate_gstin_info",
                      FALSE, by_transporter_api, out1) } :
        LET raised1 == IF exists THEN "none" ELSE r1.raised
            gstin1 == IF exists THEN store[transporter_id] ELSE r1.returned
            store1 == IF exists THEN store ELSE r1.store
            cache1 == IF exists THEN cache ELSE r1.cache
            fallback == raised1 = "none" /\ NeedsTransporterFallback(gstin1)
            api2 == IF fallback THEN TransporterApi ELSE "none"
        IN  \E out2 \in ApiOutcomes(api2) :
            \E r2 \in { create_or_update_gstin_status(
                          store1, cache1, transporter_id, NoDate,
                          "_validate_gst_transporter_id_info", FALSE, TRUE, out2) } :
            LET gstin2 == IF fallback THEN r2.returned ELSE gstin1
                raised == IF raised1 # "none" THEN raised1
                          ELSE IF fallback /\ r2.raised # "none" THEN r2.raised
                          ELSE IF fallback /\ gstin2 = NoDoc THEN "AttributeError"
                          ELSE "none"
                warned == /\ raised = "none"
                          /\ gstin2 # NoDoc
                          /\ ~(gstin2.status = "Active"
                                \/ gstin2.transporter_id_status = "Active")
                store2 == IF raised # "none" THEN store
                          ELSE IF fallback THEN r2.store ELSE store1
            IN  /\ store' = store2
                /\ cache' = IF fallback THEN r2.cache ELSE cache1
                /\ tasks' = IF store2 # store THEN MarkStale(tasks, transporter_id)
                            ELSE tasks
                /\ last' = [EventOf("validate_gst_transporter_id", transporter_id) EXCEPT
                        !.route = IF exists THEN "none"
                                  ELSE IF by_transporter_api THEN "transporter"
                                  ELSE "gstin",
                        !.found = IF raised1 = "none" THEN gstin1 ELSE NoDoc,
                        !.fallback = fallback,
                        !.api = IF exists THEN "none" ELSE r1.api,
                        !.outcome = IF exists THEN "none" ELSE r1.outcome,
                        !.fallback_api = IF fallback THEN r2.api ELSE "none",
                        !.fallback_outcome = IF fallback THEN r2.outcome ELSE "none",
                        !.raised = raised,
                        !.returned = IF raised = "none" THEN gstin2 ELSE NoDoc,
                        !.validation = IF fallback THEN r2.validation
                                       ELSE IF exists THEN "none" ELSE r1.validation,
                        !.warned = warned]
    /\ UNCHANGED <<settings, now, nticks>>

\* A worker starts a queued job: create_or_update_gstin_status up to
\* "if not response: return"
RunJob(t) ==
    /\ tasks[t].pc = "queued"
    /\ \E out \in ApiOutcomes(GstinApi(cache, tasks[t].gstin, FALSE)) :
        \E r \in { _get_gstin_info(cache, tasks[t].gstin, FALSE, out) } :
        /\ cache' = r.cache
        /\ tasks' = [tasks EXCEPT ![t] =
                IF r.raised = "none" /\ r.response # NoResponse
                THEN [@ EXCEPT !.pc = "load", !.response = r.response]
                ELSE FreeTask]
        /\ last' = [EventOf("job", tasks[t].gstin) EXCEPT
                        !.api = r.api, !.outcome = out.kind, !.raised = r.raised]
    /\ UNCHANGED <<settings, store, now, ncalls, nticks>>

\* The job: frappe.db.exists, then get_doc or new_doc
LoadDoc(t) ==
    /\ tasks[t].pc = "load"
    /\ tasks' = [tasks EXCEPT ![t] =
            [@ EXCEPT !.pc = "save", !.doc = LoadedDoc(store, tasks[t].response.gstin)]]
    /\ last' = EventOf("load", tasks[t].gstin)
    /\ UNCHANGED <<settings, store, cache, now, ncalls, nticks>>

\* The job: doc.update, doc.save, the callback, return doc
SaveDoc(t) ==
    /\ tasks[t].pc = "save"
    /\ LET gstin == tasks[t].gstin
           error == IF tasks[t].doc.gstin = "None" THEN InsertError(gstin)
                    ELSE SaveError(tasks[t].doc, tasks[t].stale)
           doc == before_save(UpdatedDoc(tasks[t].doc, tasks[t].response))
       IN  /\ store' = IF error = "none" THEN [store EXCEPT ![gstin] = doc] ELSE store
           /\ tasks' = IF error = "none"
                       THEN MarkStale([tasks EXCEPT ![t] = FreeTask], gstin)
                       ELSE [tasks EXCEPT ![t] = FreeTask]
           /\ last' = [EventOf("save", gstin) EXCEPT
                    !.transaction_date = tasks[t].transaction_date,
                    !.callback = "_validate_gstin_info",
                    !.raised = error,
                    !.returned = IF error = "none" THEN doc ELSE NoDoc,
                    !.validation = IF error = "none"
                                   THEN Callback("_validate_gstin_info", doc,
                                                 tasks[t].transaction_date)
                                   ELSE "none"]
    /\ UNCHANGED <<settings, cache, now, ncalls, nticks>>

Next ==
    \/ \E d \in TickSteps : Tick(d)
    \/ \E g \in Gstins, d \in TxnDates, ui \in BOOLEAN, force \in BOOLEAN :
            get_gstin_status(g, d, ui, force)
    \/ \E g \in Gstins : update_gstin_status(g)
    \/ \E g \in Keys : update_transporter_id_status(g)
    \/ \E g \in Keys : validate_gst_transporter_id(g)
    \/ \E t \in TaskIds : RunJob(t)
    \/ \E t \in TaskIds : LoadDoc(t)
    \/ \E t \in TaskIds : SaveDoc(t)

Spec == Init /\ [][Next]_vars

\* --------------------------------------------- one call from a persisted state
\* Documents a site holds from earlier lookups of the public registry: saved
\* the day before or today.
PersistedDocs(gstin) ==
    { [before_save(UpdatedDoc(NewDoc, get_formatted_response(gstin, p)))
            EXCEPT !.last_updated_on = t] :
        p \in PublicPayloads, t \in {0, SecondsPerDay} }

\* Any GST Settings, a party GSTIN stored earlier or not, looked up a moment
\* ago or not; one call is made from there.
InitWide ==
    /\ settings \in SettingsOptions
    /\ now = SecondsPerDay
    /\ \E g \in Gstins :
        /\ \E d \in {NoDoc} \cup PersistedDocs(g) :
                store = [k \in AllKeys |-> IF k = g THEN d ELSE NoDoc]
        /\ \E flag \in {0, now + RecentlyCheckedTTL} :
                cache = [k \in CacheKeys |-> IF k = g THEN flag ELSE 0]
    /\ tasks = [t \in TaskIds |-> FreeTask]
    /\ ncalls = MaxCalls - 1
    /\ nticks = 0
    /\ last = Event

SpecWide == InitWide /\ [][Next]_vars

\* ------------------------------------------- transporter IDs, any settings
\* Any GST Settings and an empty store; transporter IDs of every kind are
\* validated and refreshed, and a party GSTIN is looked up from the UI.
InitIds ==
    /\ settings \in SettingsOptions
    /\ store = [g \in AllKeys |-> NoDoc]
    /\ cache = [k \in CacheKeys |-> 0]
    /\ now = SecondsPerDay
    /\ tasks = [t \in TaskIds |-> FreeTask]
    /\ ncalls = 0
    /\ nticks = 0
    /\ last = Event

NextIds ==
    \/ \E d \in TickSteps : Tick(d)
    \/ \E g \in Gstins : get_gstin_status(g, NoDate, TRUE, TRUE)
    \/ \E g \in AllKeys : update_transporter_id_status(g)
    \/ \E g \in AllKeys : validate_gst_transporter_id(g)

SpecIds == InitIds /\ [][NextIds]_vars

\* ------------------------------------------------ non-forced calls only
\* Transactions ask for the status of a party GSTIN without the force flag,
\* from the UI or not; the jobs they enqueue run.
NextSoft ==
    \/ \E d \in TickSteps : Tick(d)
    \/ \E g \in Gstins, d \in TxnDates, ui \in BOOLEAN :
            get_gstin_status(g, d, ui, FALSE)
    \/ \E t \in TaskIds : RunJob(t)
    \/ \E t \in TaskIds : LoadDoc(t)
    \/ \E t \in TaskIds : SaveDoc(t)

SpecSoft == Init /\ [][NextSoft]_vars

\* ---------------------------------------------------------------- claims
\* The steps that look GSTIN data up through _get_gstin_info.
GstinApis == {"public", "einvoice"}

\* C1: after any sequence of saves, every stored record whose status is
\* Cancelled has a cancelled_date.
C1_CancelledHasCancelledDate ==
    \A g \in Keys :
        (store[g] # NoDoc /\ store[g].status = "Cancelled")
            => store[g].cancelled_date # NoDate

\* The job's callback has just validated the saved document against a
\* transaction date.
Validated ==
    /\ last.op = "save"
    /\ last.raised = "none"
    /\ last.callback = "_validate_gstin_info"
    /\ last.transaction_date # NoDate

\* C2: given a record and a transaction date, the validator reports a failure
\* exactly when registration_date is missing, or the transaction date precedes
\* registration_date, or status is Cancelled and the transaction date is on or
\* after cancelled_date, or status is neither Active nor Cancelled; otherwise
\* it reports nothing.
C2_ValidatorFailsExactlyWhen ==
    Validated =>
        LET doc == last.returned
            txn == last.transaction_date
            fails == \/ doc.registration_date = NoDate
                     \/ txn < doc.registration_date
                     \/ doc.status = "Cancelled" /\ txn >= doc.cancelled_date
                     \/ doc.status \notin {"Active", "Cancelled"}
        IN  /\ fails => last.validation = "logged"
            /\ ~fails => last.validation = "pass"

\* A Cancelled record validated on its cancellation date, registered before.
C2_Witness ==
    /\ Validated
    /\ last.returned.status = "Cancelled"
    /\ last.returned.registration_date # NoDate
    /\ last.returned.registration_date <= last.transaction_date
    /\ last.returned.cancelled_date = last.transaction_date
    /\ last.validation = "logged"

\* C3: for a record whose status is outside {Active, Cancelled} the validator
\* reports a failure whatever the record's dates and the transaction date.
C3_OtherStatusAlwaysFails ==
    (Validated /\ last.returned.status \notin {"Active", "Cancelled"})
        => last.validation = "logged"

\* A Suspended record validated on a date that its dates allow.
C3_Witness ==
    /\ Validated
    /\ last.returned.status = "Suspended"
    /\ last.returned.registration_date # NoDate
    /\ last.returned.registration_date <= last.transaction_date
    /\ last.validation = "logged"

\* C4: a failure of the upstream API, whichever source is used, does not
\* reach the caller: the call returns no record and the store is unchanged.
C4_ApiFailuresNeverPropagate ==
    [][ (last'.outcome \in ApiFailures \/ last'.fallback_outcome \in ApiFailures)
            => /\ last'.raised = "none"
               /\ last'.returned = NoDoc
               /\ store' = store ]_vars

\* C5: a GSPServerError sets the circuit breaker for 60 seconds, no other
\* failure sets it, and while it is set no external API of any kind is called.
C5_CircuitBreakerSilencesAllLookups ==
    /\ (last.outcome = "GSPServerError" \/ last.fallback_outcome = "GSPServerError")
            => cache["gst_server_error"] = now + ServerErrorTTL
    /\ (last.outcome = "Exception" /\ ~last.breaker)
            => cache["gst_server_error"] = 0
    /\ last.breaker => (last.api = "none" /\ last.fallback_api = "none")

\* C6: a GSTIN lookup that raises sets the flag of its GSTIN for 180 seconds,
\* and while the flag is set a non-forced get_gstin_status for that GSTIN
\* neither calls an API nor enqueues a job.
C6_FailedLookupSuppressesRepeat ==
    /\ (last.api \in GstinApis /\ last.outcome \in ApiFailures)
            => cache[last.gstin] = now + RecentlyCheckedTTL
    /\ (last.op = "get_gstin_status" /\ ~last.force_update /\ last.flagged)
            => (last.api = "none" /\ ~last.enqueued)

\* A non-forced get_gstin_status for a GSTIN that has no record, made while
\* the flag left by a failed lookup is set.
C6_Witness ==
    /\ last.op = "get_gstin_status"
    /\ ~last.force_update
    /\ last.flagged
    /\ ~last.existed
    /\ nticks > 0
    /\ last.api = "none"
    /\ ~last.enqueued

\* The settings that suppress a refresh.
SettingsSuppress ==
    \/ ~settings.validate_gstin_status
    \/ ~settings.enable_api
    \/ settings.sandbox_mode

\* C7: with validation or the API disabled, in sandbox mode, or with the
\* recently-checked flag set, is_status_refresh_required never returns true,
\* and a non-forced get_gstin_status looks nothing up, enqueues nothing and
\* returns the stored record, or nothing when there is none.
C7_SuppressedNeverRefreshes ==
    /\ \A g \in Gstins, d \in TxnDates :
            (SettingsSuppress \/ cache[g] > now)
                => is_status_refresh_required(g, d) # "True"
    /\ ( /\ last.op = "get_gstin_status"
         /\ ~last.force_update
         /\ (SettingsSuppress \/ last.flagged) )
            => /\ last.api = "none"
               /\ ~last.enqueued
               /\ last.returned = store[last.gstin]

\* In sandbox mode a non-forced get_gstin_status returned the stale stored record.
C7_Witness ==
    /\ settings.sandbox_mode
    /\ last.op = "get_gstin_status"
    /\ ~last.force_update
    /\ ~last.flagged
    /\ last.existed
    /\ last.returned = store[last.gstin]
    /\ Today - (store[last.gstin].last_updated_on \div SecondsPerDay)
            >= settings.gstin_status_refresh_interval

\* C8: for a GSTIN without a stored record, with nothing suppressing and no
\* force flag, is_status_refresh_required returns true with or without a
\* transaction date, and get_gstin_status starts a lookup.
C8_FirstTimeGstinRefreshes ==
    /\ \A g \in Gstins, d \in TxnDates :
            (store[g] = NoDoc /\ ~SettingsSuppress /\ ~(cache[g] > now))
                => is_status_refresh_required(g, d) = "True"
    /\ ( /\ last.op = "get_gstin_status"
         /\ ~last.force_update
         /\ ~last.existed
         /\ ~SettingsSuppress
         /\ ~last.flagged )
            => IF last.is_request_from_ui
               THEN last.api \in GstinApis \/ last.breaker
               ELSE last.enqueued

\* A non-forced call without a transaction date for an unknown GSTIN
\* enqueued the refresh job.
C8_Witness ==
    /\ last.op = "get_gstin_status"
    /\ ~last.force_update
    /\ ~last.existed
    /\ last.enqueued
    /\ \E t \in TaskIds :
        /\ tasks[t].pc = "queued"
        /\ tasks[t].gstin = last.gstin
        /\ tasks[t].transaction_date = NoDate

\* C9: for a GSTIN with a stored record and nothing suppressing,
\* is_status_refresh_required returns true exactly when a transaction date is
\* given and the status is outside {Active, Cancelled} or the days since
\* last_updated_on reach the refresh interval; it returns false otherwise.
C9_StoredRecordRefreshRule ==
    \A g \in Gstins, d \in TxnDates :
        (store[g] # NoDoc /\ ~SettingsSuppress /\ ~(cache[g] > now))
            => LET days == (now \div SecondsPerDay)
                                - (store[g].last_updated_on \div SecondsPerDay)
                   due == /\ d # NoDate
                          /\ \/ store[g].status \notin {"Active", "Cancelled"}
                             \/ days >= settings.gstin_status_refresh_interval
               IN  is_status_refresh_required(g, d) = IF due THEN "True" ELSE "False"

\* A call with a transaction date for an Active record last updated exactly
\* the refresh interval ago enqueued a refresh.
C9_Witness ==
    /\ last.op = "get_gstin_status"
    /\ ~last.force_update
    /\ last.existed
    /\ last.enqueued
    /\ store[last.gstin].status = "Active"
    /\ (now \div SecondsPerDay) - (store[last.gstin].last_updated_on \div SecondsPerDay)
            = settings.gstin_status_refresh_interval

\* C10: every interleaving of two create_or_update_gstin_status jobs for one
\* GSTIN ends with both jobs complete without error and the record holding
\* what the job that saved last wrote.
C10_ConcurrentUpsertsLastWriterWins ==
    last.op = "save" =>
        /\ last.raised = "none"
        /\ store[last.gstin] = last.returned

\* C11: validate_gst_transporter_id for an ID without a stored record looks
\* it up first through the transporter (e-waybill) API when the ID starts
\* with "88" or fails the check digit, and through the GSTIN API otherwise;
\* with a stored record it makes no first lookup.
C11_FirstLookupRoute ==
    last.op = "validate_gst_transporter_id" =>
        IF last.existed
        THEN last.route = "none" /\ last.api = "none" /\ last.outcome = "none"
        ELSE IF StartsWith88(last.gstin) \/ ~validate_gstin_check_digit(last.gstin)
        THEN last.route = "transporter" /\ last.api \notin GstinApis
        ELSE last.route = "gstin" /\ last.api # "ewaybill"

\* An ID without the "88" prefix that fails the check digit, not stored, went
\* to the e-waybill API.
C11_Witness ==
    /\ last.op = "validate_gst_transporter_id"
    /\ ~last.existed
    /\ ~StartsWith88(last.gstin)
    /\ ~validate_gstin_check_digit(last.gstin)
    /\ last.route = "transporter"
    /\ last.api = "ewaybill"

\* C12: validate_gst_transporter_id makes the fallback lookup through the
\* transporter API exactly when the document it has so far, stored or just
\* fetched, has a status other than Active and no transporter status; the
\* transporter API is called at most once in a validation.
C12_FallbackExactlyWhen ==
    last.op = "validate_gst_transporter_id" =>
        /\ last.fallback <=>
                /\ last.found # NoDoc
                /\ last.found.status # "Active"
                /\ last.found.transporter_id_status \notin {"Active", "Invalid"}
        /\ ~last.fallback => last.fallback_api = "none"
        /\ last.fallback_api \notin GstinApis
        /\ ~(last.api = "ewaybill" /\ last.fallback_api = "ewaybill")

\* A stored Cancelled record without a transporter status was sent to the
\* e-waybill API, which answered.
C12_Witness ==
    /\ last.op = "validate_gst_transporter_id"
    /\ last.existed
    /\ last.found.status = "Cancelled"
    /\ last.fallback
    /\ last.fallback_api = "ewaybill"
    /\ last.fallback_outcome = "ok"

\* C13: validate_gst_transporter_id returns normally whatever its lookups
\* come back with (a record, nothing, nothing from the fallback, e-waybill
\* disabled), and when the record it ends with has neither a GSTIN status nor
\* a transporter status of Active the user is warned.
C13_TransporterValidationNonFatal ==
    ( /\ last.op = "validate_gst_transporter_id"
      /\ last.outcome \notin ApiFailures
      /\ last.fallback_outcome \notin ApiFailures )
        => /\ last.raised = "none"
           /\ ( /\ last.returned # NoDoc
                /\ last.returned.status # "Active"
                /\ last.returned.transporter_id_status # "Active" )
                    => last.warned

\* A company GSTIN is configured for the e-invoice service.
CompanyConfigured ==
    /\ settings.enable_e_invoice
    /\ \E i \in 1..Len(settings.credentials) :
            settings.credentials[i].service = "e-Waybill / e-Invoice"

\* C14: a GSTIN lookup contacts one source and no second one after a
\* failure: the public API when the public API is asked for (forced or
\* manual refresh) or no company GSTIN is configured, the e-invoice API
\* otherwise; a background job never asks for the public API.
C14_OneSourcePerLookup ==
    LET use_public_api ==
            CASE last.op = "update_gstin_status" -> TRUE
              [] last.op = "get_gstin_status" -> last.force_update
              [] OTHER -> FALSE
        source == IF use_public_api \/ ~CompanyConfigured THEN "public" ELSE "einvoice"
        looked_up == \/ last.op \in {"job", "update_gstin_status"}
                     \/ /\ last.op = "get_gstin_status"
                        /\ last.is_request_from_ui
                        /\ last.force_update
    IN  /\ last.api \in GstinApis => last.api = source
        /\ (looked_up /\ ~last.breaker) => last.api = source
        /\ last.fallback_api \notin GstinApis
        /\ last.outcome \in ApiFailures => last.fallback_api = "none"
        /\ (last.op = "job" /\ CompanyConfigured) => last.api # "public"

\* A background job asked the e-invoice API, which failed, and nothing else.
C14_Witness ==
    /\ last.op = "job"
    /\ CompanyConfigured
    /\ last.api = "einvoice"
    /\ last.outcome = "Exception"
    /\ last.fallback_api = "none"

\* The jobs that are queued, and those that hold a response.
QueuedJobs(ts) == { t \in TaskIds : ts[t].pc = "queued" }
RunningJobs(ts) == { t \in TaskIds : ts[t].pc \in {"load", "save"} }

\* C15: when a refresh is needed and the request is not from the UI,
\* get_gstin_status calls no API, enqueues one job and returns nothing, also
\* when a record is stored; in the job the callback runs only once the record
\* is saved, and never when the lookup gave no response.
C15_BackgroundRefreshNotAwaited ==
    [][ /\ ( /\ last'.op = "get_gstin_status"
             /\ ~last'.is_request_from_ui
             /\ \/ last'.force_update
                \/ is_status_refresh_required(last'.gstin, last'.transaction_date) = "True" )
            => /\ last'.api = "none"
               /\ last'.enqueued
               /\ last'.returned = NoDoc
               /\ store' = store
               /\ cache' = cache
               /\ RunningJobs(tasks') = RunningJobs(tasks)
               /\ \E t \in TaskIds :
                    /\ QueuedJobs(tasks') = QueuedJobs(tasks) \cup {t}
                    /\ t \notin QueuedJobs(tasks)
                    /\ tasks'[t].gstin = last'.gstin
                    /\ tasks'[t].transaction_date = last'.transaction_date
        /\ last'.op = "job"
            => /\ last'.validation = "none"
               /\ store' = store
               /\ last'.outcome # "ok" => RunningJobs(tasks') = RunningJobs(tasks)
        /\ (last'.op = "save" /\ last'.validation # "none")
            => /\ last'.raised = "none"
               /\ store'[last'.gstin] = last'.returned
      ]_vars

\* A call with the force flag, not from the UI, for a stored GSTIN queued a
\* job and returned nothing.
C15_Witness ==
    /\ last.op = "get_gstin_status"
    /\ ~last.is_request_from_ui
    /\ last.force_update
    /\ last.existed
    /\ last.enqueued
    /\ last.returned = NoDoc
    /\ QueuedJobs(tasks) # {}

\* What _validate_gstin_info can find wrong.
ValidationFailures ==
    {"registration date not found", "before registration", "cancelled", "status"}

\* C16: a validation failure is thrown only when throw is set and logged
\* otherwise; the job's callback is called without throw, so a failure is
\* logged, the job ends without error and the record it saved stays stored.
C16_ValidationFailureLoggedInJob ==
    /\ \A f \in ValidationFailures :
            Report(f, TRUE) = "thrown" /\ Report(f, FALSE) = "logged"
    /\ last.validation # "thrown"
    /\ (last.op = "save" /\ last.validation \notin {"none", "pass"})
            => /\ last.validation = "logged"
               /\ last.raised = "none"
               /\ last.returned # NoDoc
               /\ store[last.gstin] = last.returned

\* A job saved an Active record registered after the transaction date: the
\* failure was logged and the record is stored.
C16_Witness ==
    /\ last.op = "save"
    /\ last.validation = "logged"
    /\ last.returned.status = "Active"
    /\ last.transaction_date # NoDate
    /\ last.transaction_date < last.returned.registration_date
    /\ store[last.gstin] = last.returned

\* C17: a record is created only by a lookup that returned a response for
\* its key, a later successful lookup updates that record, no step removes a
\* record, and a lookup that fails, is suppressed or returns nothing leaves
\* the store as it was.
C17_RecordLifecycle ==
    [][ /\ \A k \in AllKeys :
            /\ store[k] # NoDoc => (store'[k] # NoDoc /\ store'[k].gstin = k)
            /\ store'[k] # store[k] =>
                /\ k = last'.gstin
                /\ store'[k].gstin = k
                /\ last'.raised = "none"
                /\ \/ last'.outcome = "ok"
                   \/ last'.fallback_outcome = "ok"
                   \/ /\ last'.op = "save"
                      /\ \E t \in TaskIds :
                            /\ tasks[t].pc = "save"
                            /\ tasks[t].gstin = k
                            /\ tasks[t].response # NoResponse
                            /\ tasks[t].response.gstin = k
        /\ ( /\ last'.op \notin {"save", "init"}
             /\ last'.outcome # "ok"
             /\ last'.fallback_outcome # "ok" ) => store' = store
        /\ last'.op \in {"job", "load", "tick"} => store' = store
      ]_vars

\* A manual refresh of a stored record replaced it by what the public API
\* answered.
C17_Witness ==
    /\ last.op = "update_gstin_status"
    /\ last.existed
    /\ last.outcome = "ok"
    /\ last.returned # NoDoc
    /\ store[last.gstin] = last.returned

\* C18: a save that brings no new status or block data leaves them as
\* stored: a transporter-ID status update keeps status and is_blocked, a
\* refresh from the public API (no block status) keeps is_blocked; a blocked
\* record stays blocked.
C18_SaveKeepsStatusAndBlock ==
    [][ \A k \in AllKeys :
            (store[k] # NoDoc /\ store'[k] # store[k]) =>
                /\ ( \/ last'.op = "update_transporter_id_status"
                     \/ last'.fallback_outcome = "ok" )
                        => /\ store'[k].status = store[k].status
                           /\ store'[k].is_blocked = store[k].is_blocked
                /\ last'.api = "public" => store'[k].is_blocked = store[k].is_blocked
      ]_vars

\* C19: with non-forced get_gstin_status calls and their jobs only, at most
\* one API call for a GSTIN is made in any 180 seconds: no API is called for
\* a GSTIN whose flag, set by a lookup less than 180 seconds ago, is alive.
C19_OneApiCallPerWindow ==
    last.api \in GstinApis => ~last.flagged

\* C19 as amended: a non-forced call for a GSTIN whose flag is set calls no
\* API and enqueues nothing; every API call is made by a UI call that found
\* the flag unset or by one job enqueued by a call that found it unset, each
\* job calling once, and sets the flag for 180 seconds.
C19_OneApiCallPerUnflaggedCall ==
    [][ /\ last'.api \in GstinApis =>
            /\ cache'[last'.gstin] = now + RecentlyCheckedTTL
            /\ \/ /\ last'.op = "get_gstin_status"
                  /\ last'.is_request_from_ui
                  /\ ~last'.flagged
               \/ /\ last'.op = "job"
                  /\ \E t \in TaskIds :
                        /\ QueuedJobs(tasks') = QueuedJobs(tasks) \ {t}
                        /\ t \in QueuedJobs(tasks)
                        /\ tasks[t].gstin = last'.gstin
        /\ (last'.op = "get_gstin_status" /\ last'.flagged) =>
            /\ last'.api = "none"
            /\ ~last'.enqueued
            /\ tasks' = tasks
        /\ last'.enqueued => Cardinality(QueuedJobs(tasks')) = Cardinality(QueuedJobs(tasks)) + 1
      ]_vars

\* A job enqueued before any lookup called the API while the flag set by
\* another lookup was alive.
C19_Witness ==
    /\ last.op = "job"
    /\ last.api \in GstinApis
    /\ last.flagged

\* C20: last_updated_on of a stored record changes only in a step that
\* fetched GSTIN status data from the public or the e-invoice API (or the job
\* step that saves what it fetched); a transporter-ID status update leaves
\* it, and with it the age that the refresh interval is compared with.
C20_LastUpdatedOnlyByGstinFetch ==
    [][ \A k \in AllKeys :
            ( /\ store[k] # NoDoc
              /\ store'[k].last_updated_on # store[k].last_updated_on )
                => \/ last'.api \in GstinApis /\ last'.outcome = "ok"
                   \/ last'.op = "save"
      ]_vars

====
